---- MODULE Spec2Model ----
(***************************************************************************)
(* Model of the Flight Agent service: the rule-based responder run_agent   *)
(* (Sample_Agent/agent/agentf.py) and the POST /recommendation endpoint    *)
(* (Sample_Agent/main.py).                                                 *)
(*                                                                         *)
(* A text is a sequence of one-character strings.  The pictographs that    *)
(* open the template strings of agentf.py are left out of the template     *)
(* strings below; the wording is otherwise the source's.                   *)
(***************************************************************************)
EXTENDS Integers, Sequences, FiniteSets, TLC

VARIABLES
    \* ---- a direct call of run_agent (agentf.py) ----
    input_text,     \* the argument of the call
    agent_pc,       \* "called" | "returned"
    result,         \* the returned dict, NoResult before the return
    prev,           \* the caller's record of its previous call: [has, text, result]
    \* ---- the POST /recommendation endpoint (main.py) ----
    pc,             \* request -> "idle" | "received" | "handler" | "returning" | "done"
    body,           \* request -> the JSON body the client sent
    query,          \* request -> Query.input_text after validation
    ref,            \* request -> index in heap of the dict run_agent returned, 0 if none
    reply,          \* request -> the HTTP reply, NoReply before it is sent
    heap,           \* the dicts run_agent has returned, in allocation order
    log             \* the records the endpoint's logger has written, in order

agent_vars == <<input_text, agent_pc, result, prev>>
srv_vars == <<pc, body, query, ref, reply, heap, log>>
vars == <<input_text, agent_pc, result, prev, pc, body, query, ref, reply, heap, log>>

(***************************************************************************)
(* Bounds                                                                  *)
(***************************************************************************)
MaxFrags == 3
NumRequests == 2

(***************************************************************************)
(* Characters and str.lower()                                              *)
(***************************************************************************)
UpperLetters ==
    <<"A","B","C","D","E","F","G","H","I","J","K","L","M",
      "N","O","P","Q","R","S","T","U","V","W","X","Y","Z">>

LowerLetters ==
    <<"a","b","c","d","e","f","g","h","i","j","k","l","m",
      "n","o","p","q","r","s","t","u","v","w","x","y","z">>

IsUpper(c) == \E i \in DOMAIN UpperLetters : UpperLetters[i] = c

IsLower(c) == \E i \in DOMAIN LowerLetters : LowerLetters[i] = c

LetterIndex(letters, c) == CHOOSE i \in DOMAIN letters : letters[i] = c

\* str.lower() on one character: an upper-case letter becomes its lower-case
\* letter, every other character is kept.
char_lower(c) ==
    IF IsUpper(c) THEN LowerLetters[LetterIndex(UpperLetters, c)] ELSE c

\* str.upper() on one character.
char_upper(c) ==
    IF IsLower(c) THEN UpperLetters[LetterIndex(LowerLetters, c)] ELSE c

\* A faulty lower(): the text is used as it was typed.
str_lower_identity(s) == s

\* input_text.lower()
str_lower(s) == [i \in 1..Len(s) |-> char_lower(s[i])]

\* Python's  sub in s  on strings: sub occurs in s at some position.
Contains(sub, s) ==
    \E i \in 0..(Len(s) - Len(sub)) : SubSeq(s, i + 1, i + Len(sub)) = sub

(***************************************************************************)
(* The keywords of run_agent                                               *)
(***************************************************************************)
kw_delay == <<"d","e","l","a","y">>
kw_delayed == <<"d","e","l","a","y","e","d">>
kw_cancel == <<"c","a","n","c","e","l">>
kw_weather == <<"w","e","a","t","h","e","r">>

(***************************************************************************)
(* The four dict literals run_agent returns                                *)
(***************************************************************************)
DelayResponse ==
    [message |-> "We sincerely apologize for the flight delay. Here are your enhanced options:",
     recommendations |->
        <<"Check with gate agent for updated departure time",
          "Consider rebooking on next available flight",
          "Request meal vouchers if delay exceeds 3 hours",
          "Contact customer service for accommodation if overnight delay",
          "Use our mobile app for real-time updates">>,
     passenger_message |-> "We understand your frustration and are working to get you to your destination as quickly as possible. [CI/CD Test v2.1]"]

CancelResponse ==
    [message |-> "Flight cancellation assistance - Enhanced Support:",
     recommendations |->
        <<"Automatic rebooking on next available flight",
          "Full refund if you choose not to travel",
          "Hotel accommodation for overnight delays",
          "Meal vouchers and transportation",
          "Priority customer service line access">>,
     passenger_message |-> "We apologize for the inconvenience. Our enhanced support team is ready to assist with rebooking or refunds. [Test Deployment v2.1]"]

WeatherResponse ==
    [message |-> "Weather-related flight disruption guidance - Updated:",
     recommendations |->
        <<"Monitor weather conditions at destination",
          "Consider flexible rebooking options",
          "Check airline app for real-time updates",
          "Prepare for possible extended delays",
          "Travel insurance claim assistance available">>,
     passenger_message |-> "Weather safety is our priority. We'll resume operations as soon as conditions improve. [Enhanced Response v2.1]"]

GeneralResponse ==
    [message |-> "General flight assistance - Enhanced Service:",
     recommendations |->
        <<"Check flight status regularly",
          "Arrive at airport with extra time",
          "Keep important documents handy",
          "Download airline mobile app for updates",
          "24/7 customer support available">>,
     passenger_message |-> "Thank you for flying with us. We're here to help make your journey smooth. [CI/CD Test Successful v2.1]"]

(***************************************************************************)
(* run_agent                                                               *)
(***************************************************************************)
\* Faulty variants of run_agent, each a slip the if/elif chain invites.
run_agent_cancel_first(text) ==
    LET input_lower == str_lower(text) IN
    IF Contains(kw_cancel, input_lower) THEN CancelResponse
    ELSE IF Contains(kw_delay, input_lower) \/ Contains(kw_delayed, input_lower)
         THEN DelayResponse
    ELSE IF Contains(kw_weather, input_lower) THEN WeatherResponse
    ELSE GeneralResponse

run_agent_weather_first(text) ==
    LET input_lower == str_lower(text) IN
    IF Contains(kw_delay, input_lower) \/ Contains(kw_delayed, input_lower)
    THEN DelayResponse
    ELSE IF Contains(kw_weather, input_lower) THEN WeatherResponse
    ELSE IF Contains(kw_cancel, input_lower) THEN CancelResponse
    ELSE GeneralResponse

run_agent_no_weather(text) ==
    LET input_lower == str_lower(text) IN
    IF Contains(kw_delay, input_lower) \/ Contains(kw_delayed, input_lower)
    THEN DelayResponse
    ELSE IF Contains(kw_cancel, input_lower) THEN CancelResponse
    ELSE GeneralResponse

run_agent_delayed_only(text) ==
    LET input_lower == str_lower(text) IN
    IF Contains(kw_delayed, input_lower) THEN DelayResponse
    ELSE IF Contains(kw_cancel, input_lower) THEN CancelResponse
    ELSE IF Contains(kw_weather, input_lower) THEN WeatherResponse
    ELSE GeneralResponse

run_agent_short_general(text) ==
    LET input_lower == str_lower(text) IN
    IF Contains(kw_delay, input_lower) \/ Contains(kw_delayed, input_lower)
    THEN DelayResponse
    ELSE IF Contains(kw_cancel, input_lower) THEN CancelResponse
    ELSE IF Contains(kw_weather, input_lower) THEN WeatherResponse
    ELSE [message |-> GeneralResponse.message,
          recommendations |-> SubSeq(GeneralResponse.recommendations, 1, 3)]

\* run_agent(input_text): lower-case the text, then the first branch of the
\* if/elif chain whose keyword occurs in it decides the dict returned.
run_agent(text) ==
    LET input_lower == str_lower(text) IN
    IF Contains(kw_delay, input_lower) \/ Contains(kw_delayed, input_lower)
    THEN DelayResponse
    ELSE IF Contains(kw_cancel, input_lower) THEN CancelResponse
    ELSE IF Contains(kw_weather, input_lower) THEN WeatherResponse
    ELSE GeneralResponse

(***************************************************************************)
(* Inputs of a direct call: texts built from at most MaxFrags fragments.   *)
(* The fragments join across their borders ("de" \o "Lay" reads "deLay").  *)
(***************************************************************************)
Fragments ==
    { kw_delay,
      <<"D","E","L","A","Y">>,
      kw_cancel,
      kw_weather,
      <<"W","e","a","t","h","e","r">>,
      <<" ">>,
      <<"d","e">>,
      <<"L","a","y">> }

RECURSIVE TextsUpTo(_)
TextsUpTo(n) ==
    IF n = 0 THEN { <<>> }
    ELSE LET shorter == TextsUpTo(n - 1)
         IN  shorter \cup { t \o f : t \in shorter, f \in Fragments }

Texts == TextsUpTo(MaxFrags)

\* The same text typed in another letter case: all upper, all lower, every
\* letter swapped, or the letter at one position swapped.
char_swapcase(c) ==
    IF IsUpper(c) THEN char_lower(c) ELSE char_upper(c)

CaseVariants(t) ==
    { [i \in 1..Len(t) |-> char_upper(t[i])],
      [i \in 1..Len(t) |-> char_lower(t[i])],
      [i \in 1..Len(t) |-> char_swapcase(t[i])] }
    \cup { [i \in 1..Len(t) |-> IF i = k THEN char_swapcase(t[i]) ELSE t[i]] :
              k \in 1..Len(t) }

NoResult == [none |-> TRUE]

NoPrev == [has |-> FALSE, text |-> <<>>, result |-> NoResult]

(***************************************************************************)
(* The endpoint: requests, bodies, replies                                 *)
(***************************************************************************)
Requests == 1..NumRequests

\* The texts the tests post (test_main.py) and one text per keyword branch.
SampleTexts ==
    { <<>>,
      <<"t","e","s","t"," ","q","u","e","r","y">>,
      kw_delay,
      <<"C","A","N","C","E","L">> }

\* A JSON body: {} (no input_text), {"input_text": null}, {"input_text": "<text>"}.
AbsentBody == [has |-> FALSE, kind |-> "absent", val |-> <<>>]

NullBody == [has |-> TRUE, kind |-> "null", val |-> <<>>]

StrBody(t) == [has |-> TRUE, kind |-> "str", val |-> t]

Bodies == { AbsentBody, NullBody } \cup { StrBody(t) : t \in SampleTexts }

NoBody == [has |-> FALSE, kind |-> "unsent", val |-> <<>>]

NoQuery == [kind |-> "unset", val |-> <<>>]

NoReply == [status |-> 0, kind |-> "none"]

(***************************************************************************)
(* A direct caller of run_agent                                            *)
(***************************************************************************)
SrvInit ==
    /\ pc = [r \in Requests |-> "idle"]
    /\ body = [r \in Requests |-> NoBody]
    /\ query = [r \in Requests |-> NoQuery]
    /\ ref = [r \in Requests |-> 0]
    /\ reply = [r \in Requests |-> NoReply]
    /\ heap = <<>>
    /\ log = <<>>

\* The caller has passed one text of Texts to run_agent.
AgentInit ==
    /\ input_text \in Texts
    /\ agent_pc = "called"
    /\ result = NoResult
    /\ prev = NoPrev
    /\ SrvInit

\* The body of run_agent runs and returns its dict.
call_run_agent ==
    /\ agent_pc = "called"
    /\ result' = run_agent(input_text)
    /\ agent_pc' = "returned"
    /\ UNCHANGED <<input_text, prev>>
    /\ UNCHANGED srv_vars

\* The caller keeps what it got and calls again with the same text in
\* another letter case.
call_again_recased ==
    /\ agent_pc = "returned"
    /\ ~prev.has
    /\ \E u \in CaseVariants(input_text) :
          /\ input_text' = u
          /\ prev' = [has |-> TRUE, text |-> input_text, result |-> result]
    /\ agent_pc' = "called"
    /\ result' = NoResult
    /\ UNCHANGED srv_vars

AgentNext ==
    \/ call_run_agent
    \/ call_again_recased

SpecAgent == AgentInit /\ [][AgentNext]_vars

(***************************************************************************)
(* POST /recommendation                                                    *)
(***************************************************************************)
\* A faulty declaration of Query: input_text: str = "", a field with a
\* default, which a body may leave out.
Query_validate_defaulted(b) == ~b.has \/ b.kind = "str"

\* class Query(BaseModel): input_text: str -- the field is required and
\* must be a string.
Query_validate(b) == b.has /\ b.kind = "str"

\* Query.input_text of the parsed body.
Query_input_text(b) == [kind |-> b.kind, val |-> b.val]

\* A faulty run_agent that reads the first character of its text.
run_agent_raises_on_empty(text) == Len(text) = 0

\* Whether run_agent(text) raises for a string: lower() and "in" are
\* defined on every string, and no branch of the chain raises.
run_agent_raises(text) == FALSE

\* The JSON value FastAPI sends for the object the handler returned: a dict
\* becomes a JSON object with the dict's members.
jsonable_encoder(obj) == [json_type |-> "object", members |-> obj]

\* A client posts a body.
post_recommendation(r) ==
    /\ pc[r] = "idle"
    /\ \E b \in Bodies : body' = [body EXCEPT ![r] = b]
    /\ pc' = [pc EXCEPT ![r] = "received"]
    /\ UNCHANGED <<query, ref, reply, heap, log>>
    /\ UNCHANGED agent_vars

\* The framework parses the body into the handler's parameter query: Query
\* and answers 422 itself when the body does not validate.
validate_request(r) ==
    /\ pc[r] = "received"
    /\ IF Query_validate(body[r])
       THEN /\ query' = [query EXCEPT ![r] = Query_input_text(body[r])]
            /\ pc' = [pc EXCEPT ![r] = "handler"]
            /\ UNCHANGED reply
       ELSE /\ reply' = [reply EXCEPT ![r] = [status |-> 422, kind |-> "detail"]]
            /\ pc' = [pc EXCEPT ![r] = "done"]
            /\ UNCHANGED query
    /\ UNCHANGED <<body, ref, heap, log>>
    /\ UNCHANGED agent_vars

\* A faulty recommend whose agent hands out one dict per template, kept at
\* module level, instead of building a dict in each call.
recommend_shared_template(r) ==
    /\ pc[r] = "handler"
    /\ query[r].kind = "str"
    /\ LET same == { q \in Requests :
                        /\ ref[q] # 0
                        /\ run_agent(query[q].val) = run_agent(query[r].val) }
       IN  IF same # {}
           THEN /\ ref' = [ref EXCEPT ![r] = ref[CHOOSE q \in same : TRUE]]
                /\ UNCHANGED heap
           ELSE /\ heap' = Append(heap, run_agent(query[r].val))
                /\ ref' = [ref EXCEPT ![r] = Len(heap) + 1]
    /\ log' = log \o << <<r, "received">>, <<r, "generated">> >>
    /\ pc' = [pc EXCEPT ![r] = "returning"]
    /\ UNCHANGED <<body, query, reply>>
    /\ UNCHANGED agent_vars

\* def recommend(query): log the request; try run_agent(query.input_text),
\* log the success and return {"response": result}; on an exception log
\* the error and re-raise.  Slicing input_text for the first log record
\* raises for a value that is no string, before the try.
recommend(r) ==
    /\ pc[r] = "handler"
    /\ IF query[r].kind # "str"
       THEN /\ reply' = [reply EXCEPT ![r] = [status |-> 500, kind |-> "error"]]
            /\ pc' = [pc EXCEPT ![r] = "done"]
            /\ UNCHANGED <<ref, heap, log>>
       ELSE IF run_agent_raises(query[r].val)
       THEN /\ log' = log \o << <<r, "received">>, <<r, "error">> >>
            /\ reply' = [reply EXCEPT ![r] = [status |-> 500, kind |-> "error"]]
            /\ pc' = [pc EXCEPT ![r] = "done"]
            /\ UNCHANGED <<ref, heap>>
       ELSE /\ heap' = Append(heap, run_agent(query[r].val))
            /\ ref' = [ref EXCEPT ![r] = Len(heap) + 1]
            /\ log' = log \o << <<r, "received">>, <<r, "generated">> >>
            /\ pc' = [pc EXCEPT ![r] = "returning"]
            /\ UNCHANGED reply
    /\ UNCHANGED <<body, query>>
    /\ UNCHANGED agent_vars

\* The framework serialises what the handler returned and answers 200.
send_response(r) ==
    /\ pc[r] = "returning"
    /\ reply' = [reply EXCEPT ![r] =
                    [status |-> 200, kind |-> "json",
                     response |-> jsonable_encoder(heap[ref[r]])]]
    /\ pc' = [pc EXCEPT ![r] = "done"]
    /\ UNCHANGED <<body, query, ref, heap, log>>
    /\ UNCHANGED agent_vars

\* A caller that holds the dict run_agent returned to it changes it in
\* place: it overwrites the message or empties the recommendations.
mutate_returned(r) ==
    /\ pc[r] = "done"
    /\ ref[r] # 0
    /\ \/ heap' = [heap EXCEPT ![ref[r]].message = "overwritten by the caller"]
       \/ heap' = [heap EXCEPT ![ref[r]].recommendations = <<>>]
    /\ heap' # heap
    /\ UNCHANGED <<pc, body, query, ref, reply, log>>
    /\ UNCHANGED agent_vars

Init ==
    /\ input_text = <<>>
    /\ agent_pc = "returned"
    /\ result = NoResult
    /\ prev = NoPrev
    /\ SrvInit

Next ==
    \E r \in Requests :
        \/ post_recommendation(r)
        \/ validate_request(r)
        \/ recommend(r)
        \/ send_response(r)
        \/ mutate_returned(r)

Spec == Init /\ [][Next]_vars

(***************************************************************************)
(* Properties of run_agent, checked under SpecAgent                        *)
(***************************************************************************)
HasDelay(t) == Contains(kw_delay, str_lower(t))

HasCancel(t) == Contains(kw_cancel, str_lower(t))

HasWeather(t) == Contains(kw_weather, str_lower(t))

\* Two texts of the same length whose characters agree at every position
\* up to the case of a letter.
SameUpToCase(a, b) ==
    /\ Len(a) = Len(b)
    /\ \A i \in 1..Len(a) :
          \/ a[i] = b[i]
          \/ \E k \in DOMAIN UpperLetters :
                {a[i], b[i]} = {UpperLetters[k], LowerLetters[k]}

ResponseFields == {"message", "recommendations", "passenger_message"}

ResponseTemplates == {DelayResponse, CancelResponse, WeatherResponse, GeneralResponse}

\* C1: a text whose lower-case form contains "delay", at any position,
\* gets the Delay response, whether or not it also contains "cancel" or
\* "weather".
C1_DelayWins ==
    (agent_pc = "returned" /\ HasDelay(input_text))
        => result = DelayResponse

C1_Witness ==
    /\ agent_pc = "returned"
    /\ HasDelay(input_text)
    /\ HasCancel(input_text)
    /\ HasWeather(input_text)
    /\ SubSeq(str_lower(input_text), 1, Len(kw_delay)) # kw_delay
    /\ result = DelayResponse

\* C2: a text whose lower-case form contains "cancel" and not "delay" gets
\* the Cancellation response, also when it contains "weather".
C2_CancelBeforeWeather ==
    (agent_pc = "returned" /\ HasCancel(input_text) /\ ~HasDelay(input_text))
        => result = CancelResponse

C2_Witness ==
    /\ agent_pc = "returned"
    /\ HasCancel(input_text)
    /\ HasWeather(input_text)
    /\ ~HasDelay(input_text)
    /\ Contains(kw_weather \o <<" ">> \o kw_cancel, str_lower(input_text))
    /\ result = CancelResponse

\* C3: a text whose lower-case form contains "weather" and neither "delay"
\* nor "cancel" gets the Weather response.
C3_WeatherLast ==
    (/\ agent_pc = "returned"
     /\ HasWeather(input_text)
     /\ ~HasDelay(input_text)
     /\ ~HasCancel(input_text))
        => result = WeatherResponse

C3_Witness ==
    /\ agent_pc = "returned"
    /\ HasWeather(input_text)
    /\ ~HasDelay(input_text)
    /\ ~HasCancel(input_text)
    /\ input_text # str_lower(input_text)
    /\ result = WeatherResponse

\* C4: a text gets the General response exactly when its lower-case form
\* contains none of "delay", "cancel", "weather"; the empty text is one.
C4_GeneralIffNoKeyword ==
    agent_pc = "returned" =>
        (result = GeneralResponse
            <=> (/\ ~HasDelay(input_text)
                 /\ ~HasCancel(input_text)
                 /\ ~HasWeather(input_text)))

C4_Witness ==
    /\ agent_pc = "returned"
    /\ input_text = <<>>
    /\ result = GeneralResponse

\* C5: two texts that differ only in the letter case of their characters
\* get the same response.
C5_CaseInsensitive ==
    (/\ agent_pc = "returned"
     /\ prev.has
     /\ SameUpToCase(prev.text, input_text))
        => result = prev.result

C5_Witness ==
    /\ agent_pc = "returned"
    /\ prev.has
    /\ prev.text = <<"D","E","L","A","Y">>
    /\ input_text = <<"d","E","L","A","Y">>
    /\ result = DelayResponse
    /\ prev.result = DelayResponse

\* C9: every response run_agent returns has exactly the fields message,
\* recommendations and passenger_message, its recommendations are 4 to 5
\* strings, and the Delay response's first recommendation is the
\* gate-agent check.
C9_ResponseShape ==
    agent_pc = "returned" =>
        /\ DOMAIN result = ResponseFields
        /\ Len(result.recommendations) \in 4..5
        /\ \A i \in 1..Len(result.recommendations) :
              result.recommendations[i] \in STRING
        /\ result.message \in STRING
        /\ result.passenger_message \in STRING
        /\ HasDelay(input_text) =>
              result.recommendations[1]
                  = "Check with gate agent for updated departure time"

C9_Witness ==
    /\ agent_pc = "returned"
    /\ HasDelay(input_text)
    /\ DOMAIN result = ResponseFields
    /\ Len(result.recommendations) = 5
    /\ result.recommendations[1] = "Check with gate agent for updated departure time"

(***************************************************************************)
(* Properties of POST /recommendation, checked under Spec                  *)
(***************************************************************************)
Logged(r, what) == \E i \in 1..Len(log) : log[i] = <<r, what>>

\* C6: the reply to a request is decided by that request's text alone: it
\* is the response of that text, two requests with the same text get the
\* same reply, whatever other requests did and whatever a caller did to a
\* dict it was given.
C6_ReplyFromOwnText ==
    /\ \A r \in Requests :
          /\ pc[r] = "returning" => heap[ref[r]] = run_agent(query[r].val)
          /\ (pc[r] = "done" /\ reply[r].status = 200) =>
                reply[r].response = jsonable_encoder(run_agent(body[r].val))
    /\ \A r1, r2 \in Requests :
          (/\ pc[r1] = "done" /\ reply[r1].status = 200
           /\ pc[r2] = "done" /\ reply[r2].status = 200
           /\ body[r1].val = body[r2].val)
              => reply[r1] = reply[r2]

C6_Witness ==
    \E r1, r2 \in Requests :
        /\ r1 # r2
        /\ pc[r1] = "done" /\ reply[r1].status = 200
        /\ pc[r2] = "done" /\ reply[r2].status = 200
        /\ body[r1].val = body[r2].val
        /\ ref[r1] < ref[r2]
        /\ heap[ref[r1]].recommendations = <<>>
        /\ heap[ref[r2]] = run_agent(body[r2].val)
        /\ reply[r1] = reply[r2]

\* C7: every request that carries a string input_text is answered 200 with
\* a JSON body whose "response" member is a string.
C7_ResponseIsString ==
    \A r \in Requests :
        (pc[r] = "done" /\ body[r].kind = "str") =>
            /\ reply[r].status = 200
            /\ reply[r].kind = "json"
            /\ reply[r].response.json_type = "string"

\* C8: a request whose body has no input_text is answered 422 by the
\* validation; the handler never runs for it: run_agent is not called, no
\* record is logged and no {"response": ...} body is sent.
C8_MissingFieldRejected ==
    \A r \in Requests :
        body[r].kind = "absent" =>
            /\ pc[r] \in {"received", "done"}
            /\ query[r] = NoQuery
            /\ ref[r] = 0
            /\ ~Logged(r, "received") /\ ~Logged(r, "generated") /\ ~Logged(r, "error")
            /\ pc[r] = "done" => reply[r] = [status |-> 422, kind |-> "detail"]

C8_Witness ==
    \E r \in Requests :
        /\ body[r].kind = "absent"
        /\ pc[r] = "done"
        /\ reply[r].status = 422
        /\ \E q \in Requests : pc[q] = "done" /\ reply[q].status = 200

\* C10: run_agent returns one of its four responses for every string and
\* never raises, so every validated request is answered 200 with the dict
\* run_agent returned, unchanged, and recommend never logs an error.
C10_TotalNoErrorBranch ==
    /\ Cardinality(ResponseTemplates) = 4
    /\ \A r \in Requests :
          /\ ~Logged(r, "error")
          /\ body[r].kind = "str" =>
                /\ pc[r] = "returning" => heap[ref[r]] \in ResponseTemplates
                /\ pc[r] = "done" =>
                      /\ reply[r].status = 200
                      /\ reply[r].kind = "json"
                      /\ reply[r].response.members \in ResponseTemplates
                      /\ Logged(r, "generated")

C10_Witness ==
    \E r \in Requests :
        /\ body[r] = StrBody(<<>>)
        /\ pc[r] = "done"
        /\ reply[r].status = 200
        /\ reply[r].response.members = GeneralResponse
        /\ Logged(r, "generated")

====
